---- MODULE Spec2Model ----
(***************************************************************************)
(* Model of src/main.py: the Palmer Penguins inference API.                *)
(*                                                                         *)
(* Process-wide state is the three module globals REGISTRY,                *)
(* ACTIVE_MODEL_NAME and ACTIVE_MODEL_PIPE.  The environment is the        *)
(* models/ directory: registry.json and one <name>.joblib per model.       *)
(* The startup hook runs first and alone; afterwards the four endpoint     *)
(* handlers (plain "def" functions, which the framework runs on a thread   *)
(* pool) run concurrently, one handler per thread, interleaved at every    *)
(* access to a global.                                                     *)
(***************************************************************************)
EXTENDS Integers, Sequences, FiniteSets, TLC

\* ---------------------------------------------------------------- bounds
NThreads == 2       \* handler threads that may run concurrently
MaxRequests == 3    \* requests accepted in one behaviour
MaxAvail == 2       \* longest available_models list in registry.json

\* ---------------------------------------------------------------- values
None == "None"
Names == {"rf", "svm", "xgb"}
Features == {"Biscoe"}
Threads == 1..NThreads

MODELS_DIR == "models"
REGISTRY_PATH == MODELS_DIR \o "/registry.json"

\* A JSON object with the two keys the program reads.  keys is the set of
\* keys present; an absent key carries a fixed filler value.
Dict(keys, dm, av) ==
    [isNone |-> FALSE, keys |-> keys,
     default_model |-> IF "default_model" \in keys THEN dm ELSE None,
     available_models |-> IF "available_models" \in keys THEN av ELSE <<>>]

\* The Python value None held in a variable that otherwise holds a dict.
NoneDict ==
    [isNone |-> TRUE, keys |-> {}, default_model |-> None,
     available_models |-> <<>>]

\* dict.get(key, default)
dict_get(d, key, default) == IF key \in d.keys THEN d[key] ELSE default

SeqsUpTo(n) == UNION {[1..k -> Names] : k \in 0..n}

RegistryFiles ==
    {Dict(ks, dm, av) : ks \in SUBSET {"default_model", "available_models"},
                        dm \in Names, av \in SeqsUpTo(MaxAvail)}

InSeq(x, s) == \E i \in 1..Len(s) : s[i] = x

VARIABLES
    fs,                 \* set of paths that exist on disk
    registry_json,      \* content of models/registry.json (when it exists)
    REGISTRY,
    ACTIVE_MODEL_NAME,
    ACTIVE_MODEL_PIPE,
    startup,            \* position and outcome of startup_event
    thr,                \* per thread: the request it handles and its position
    nreq,               \* requests accepted so far
    history             \* names set_active_model completed for, in order,
                        \* on behalf of select_model requests

vars == <<fs, registry_json, REGISTRY, ACTIVE_MODEL_NAME, ACTIVE_MODEL_PIPE,
          startup, thr, nreq, history>>

\* ------------------------------------------------------- helper functions
model_path(model_name) == MODELS_DIR \o "/" \o model_name \o ".joblib"

\* joblib.load: the pipeline object deserialized from the file at path.
joblib_load(path) == "pipeline<" \o path \o ">"

\* load_registry(): RuntimeError when the file is missing, else its content.
load_registry ==
    IF REGISTRY_PATH \notin fs
    THEN [ok |-> FALSE, error |-> "RuntimeError: registry.json no existe",
          value |-> NoneDict]
    ELSE [ok |-> TRUE, error |-> None, value |-> registry_json]

\* load_model that answers None for a missing artifact instead of raising.
load_model_returns_none(model_name) ==
    IF model_path(model_name) \notin fs
    THEN [ok |-> TRUE, status |-> 0, detail |-> None, value |-> None]
    ELSE [ok |-> TRUE, status |-> 0, detail |-> None,
          value |-> joblib_load(model_path(model_name))]

\* load_model(model_name): HTTPException(404) when the artifact is missing,
\* else the deserialized pipeline.
load_model(model_name) ==
    IF model_path(model_name) \notin fs
    THEN [ok |-> FALSE, status |-> 404, detail |-> "Modelo no encontrado",
          value |-> None]
    ELSE [ok |-> TRUE, status |-> 0, detail |-> None,
          value |-> joblib_load(model_path(model_name))]

\* pipeline.predict(df)[0]: the label this pipeline gives this feature record.
pipeline_predict(pipe, features) == "label<" \o pipe \o "," \o features \o ">"

\* ------------------------------------------------------------------ Init
IdleThread ==
    [kind |-> "idle", pc |-> "idle", arg |-> None, status |-> 0,
     detail |-> None, active_model |-> None, prediction |-> None,
     pipe_used |-> None, pipe_at_call |-> None, load_calls |-> 0,
     writes |-> 0]

Init ==
    /\ \E reg \in BOOLEAN, arts \in SUBSET Names :
          fs = (IF reg THEN {REGISTRY_PATH} ELSE {})
               \cup {model_path(n) : n \in arts}
    /\ IF REGISTRY_PATH \in fs
       THEN registry_json \in RegistryFiles
       ELSE registry_json = NoneDict
    /\ REGISTRY = NoneDict
    /\ ACTIVE_MODEL_NAME = None
    /\ ACTIVE_MODEL_PIPE = None
    /\ startup = [pc |-> "load_registry", error |-> None]
    /\ thr = [t \in Threads |-> IdleThread]
    /\ nreq = 0
    /\ history = <<>>

\* --------------------------------------------------------- startup_event
\* REGISTRY = load_registry()
StartupLoadRegistry ==
    /\ startup.pc = "load_registry"
    /\ IF load_registry.ok
       THEN /\ REGISTRY' = load_registry.value
            /\ startup' = [startup EXCEPT !.pc = "get_default"]
       ELSE /\ REGISTRY' = REGISTRY
            /\ startup' = [pc |-> "failed", error |-> load_registry.error]
    /\ UNCHANGED <<fs, registry_json, ACTIVE_MODEL_NAME, ACTIVE_MODEL_PIPE,
                   thr, nreq, history>>

\* default_model = REGISTRY.get("default_model"); RuntimeError when None
StartupGetDefault ==
    /\ startup.pc = "get_default"
    /\ IF dict_get(REGISTRY, "default_model", None) = None
       THEN startup' = [pc |-> "failed",
                        error |-> "RuntimeError: no default_model"]
       ELSE startup' = [startup EXCEPT !.pc = "load_model"]
    /\ UNCHANGED <<fs, registry_json, REGISTRY, ACTIVE_MODEL_NAME,
                   ACTIVE_MODEL_PIPE, thr, nreq, history>>

\* set_active_model(default_model), first statement:
\* ACTIVE_MODEL_PIPE = load_model(model_name)
StartupLoadModel ==
    /\ startup.pc = "load_model"
    /\ LET r == load_model(dict_get(REGISTRY, "default_model", None)) IN
       IF r.ok
       THEN /\ ACTIVE_MODEL_PIPE' = r.value
            /\ startup' = [startup EXCEPT !.pc = "set_name"]
       ELSE /\ ACTIVE_MODEL_PIPE' = ACTIVE_MODEL_PIPE
            /\ startup' = [pc |-> "failed", error |-> "HTTPException: 404"]
    /\ UNCHANGED <<fs, registry_json, REGISTRY, ACTIVE_MODEL_NAME, thr, nreq,
                   history>>

\* set_active_model without its "global" declaration: the name is bound
\* to a local and the module global keeps its value.
StartupSetName_local ==
    /\ startup.pc = "set_name"
    /\ startup' = [startup EXCEPT !.pc = "ok"]
    /\ UNCHANGED <<fs, registry_json, REGISTRY, ACTIVE_MODEL_NAME,
                   ACTIVE_MODEL_PIPE, thr, nreq, history>>

\* set_active_model(default_model), second statement:
\* ACTIVE_MODEL_NAME = model_name
StartupSetName ==
    /\ startup.pc = "set_name"
    /\ ACTIVE_MODEL_NAME' = dict_get(REGISTRY, "default_model", None)
    /\ startup' = [startup EXCEPT !.pc = "ok"]
    /\ UNCHANGED <<fs, registry_json, REGISTRY, ACTIVE_MODEL_PIPE, thr, nreq,
                   history>>

StartupOver == startup.pc \in {"ok", "failed"}

\* ------------------------------------------------------------- endpoints
\* A thread is free when it handles no request; the response of the request
\* it handled last stays readable in thr[t] until it accepts the next one.
Free(t) == thr[t].pc \in {"idle", "done"}

CanAccept(t) == StartupOver /\ Free(t) /\ nreq < MaxRequests

\* The response of a handler that raised HTTPException(status, detail).
Raise(r, status, detail) ==
    [r EXCEPT !.pc = "done", !.status = status, !.detail = detail]

\* An exception that is not an HTTPException: the framework answers 500.
Unhandled(r, exc) == Raise(r, 500, exc)

\* GET /  : reads ACTIVE_MODEL_NAME once.
home(t) ==
    /\ CanAccept(t)
    /\ thr' = [thr EXCEPT ![t] =
                 [IdleThread EXCEPT !.kind = "home", !.pc = "done",
                                    !.status = 200,
                                    !.active_model = ACTIVE_MODEL_NAME]]
    /\ nreq' = nreq + 1
    /\ history' = history
    /\ UNCHANGED <<fs, registry_json, REGISTRY, ACTIVE_MODEL_NAME,
                   ACTIVE_MODEL_PIPE, startup>>

\* GET /models : REGISTRY.get(...) twice, then ACTIVE_MODEL_NAME.
\* REGISTRY.get on None raises AttributeError.
list_models(t) ==
    /\ CanAccept(t)
    /\ LET r == [IdleThread EXCEPT !.kind = "list_models"] IN
       thr' = [thr EXCEPT ![t] =
                 IF REGISTRY.isNone
                 THEN Unhandled(r, "AttributeError")
                 ELSE [r EXCEPT !.pc = "done", !.status = 200,
                                !.active_model = ACTIVE_MODEL_NAME]]
    /\ nreq' = nreq + 1
    /\ history' = history
    /\ UNCHANGED <<fs, registry_json, REGISTRY, ACTIVE_MODEL_NAME,
                   ACTIVE_MODEL_PIPE, startup>>

\* select_model without the membership test: any name goes on to the load.
select_model_unchecked(t, model_name) ==
    /\ CanAccept(t)
    /\ LET r == [IdleThread EXCEPT !.kind = "select_model",
                                   !.arg = model_name] IN
       thr' = [thr EXCEPT ![t] =
                 IF REGISTRY.isNone
                 THEN Unhandled(r, "AttributeError")
                 ELSE [r EXCEPT !.pc = "load_model"]]
    /\ nreq' = nreq + 1
    /\ history' = history
    /\ UNCHANGED <<fs, registry_json, REGISTRY, ACTIVE_MODEL_NAME,
                   ACTIVE_MODEL_PIPE, startup>>

\* POST /select_model, lines 201-207: the membership test against
\* REGISTRY.get("available_models", []).
select_model(t, model_name) ==
    /\ CanAccept(t)
    /\ LET r == [IdleThread EXCEPT !.kind = "select_model",
                                   !.arg = model_name] IN
       thr' = [thr EXCEPT ![t] =
                 IF REGISTRY.isNone
                 THEN Unhandled(r, "AttributeError")
                 ELSE IF ~InSeq(model_name,
                                dict_get(REGISTRY, "available_models", <<>>))
                 THEN Raise(r, 404, "Modelo no disponible")
                 ELSE [r EXCEPT !.pc = "load_model"]]
    /\ nreq' = nreq + 1
    /\ history' = history
    /\ UNCHANGED <<fs, registry_json, REGISTRY, ACTIVE_MODEL_NAME,
                   ACTIVE_MODEL_PIPE, startup>>

\* set_active_model that drops the current pipeline before it loads the
\* new one: a failed load leaves ACTIVE_MODEL_PIPE cleared.
SelectLoadModel_clears_first(t) ==
    /\ thr[t].kind = "select_model" /\ thr[t].pc = "load_model"
    /\ LET r == load_model(thr[t].arg)
           c == [thr[t] EXCEPT !.load_calls = @ + 1, !.writes = @ + 1] IN
       IF r.ok
       THEN /\ ACTIVE_MODEL_PIPE' = r.value
            /\ thr' = [thr EXCEPT ![t] = [c EXCEPT !.pc = "set_name"]]
       ELSE /\ ACTIVE_MODEL_PIPE' = None
            /\ thr' = [thr EXCEPT ![t] = Raise(c, r.status, r.detail)]
    /\ UNCHANGED <<fs, registry_json, REGISTRY, ACTIVE_MODEL_NAME, startup,
                   nreq, history>>

\* set_active_model that loads only while no pipeline is held and otherwise
\* keeps the pipeline it has.
SelectLoadModel_keeps_loaded(t) ==
    /\ thr[t].kind = "select_model" /\ thr[t].pc = "load_model"
    /\ LET r == load_model(thr[t].arg)
           c == [thr[t] EXCEPT !.load_calls = @ + 1] IN
       IF ACTIVE_MODEL_PIPE # None
       THEN /\ ACTIVE_MODEL_PIPE' = ACTIVE_MODEL_PIPE
            /\ thr' = [thr EXCEPT ![t] = [thr[t] EXCEPT !.pc = "set_name"]]
       ELSE IF r.ok
       THEN /\ ACTIVE_MODEL_PIPE' = r.value
            /\ thr' = [thr EXCEPT ![t] =
                         [c EXCEPT !.pc = "set_name", !.writes = @ + 1]]
       ELSE /\ ACTIVE_MODEL_PIPE' = ACTIVE_MODEL_PIPE
            /\ thr' = [thr EXCEPT ![t] = Raise(c, r.status, r.detail)]
    /\ UNCHANGED <<fs, registry_json, REGISTRY, ACTIVE_MODEL_NAME, startup,
                   nreq, history>>

\* set_active_model, line 124: ACTIVE_MODEL_PIPE = load_model(model_name).
\* The failure of load_model leaves the handler unchanged, as raised.
SelectLoadModel(t) ==
    /\ thr[t].kind = "select_model" /\ thr[t].pc = "load_model"
    /\ LET r == load_model(thr[t].arg)
           c == [thr[t] EXCEPT !.load_calls = @ + 1] IN
       IF r.ok
       THEN /\ ACTIVE_MODEL_PIPE' = r.value
            /\ thr' = [thr EXCEPT ![t] =
                         [c EXCEPT !.pc = "set_name", !.writes = @ + 1]]
       ELSE /\ ACTIVE_MODEL_PIPE' = ACTIVE_MODEL_PIPE
            /\ thr' = [thr EXCEPT ![t] = Raise(c, r.status, r.detail)]
    /\ UNCHANGED <<fs, registry_json, REGISTRY, ACTIVE_MODEL_NAME, startup,
                   nreq, history>>

\* set_active_model, line 125: ACTIVE_MODEL_NAME = model_name.
SelectSetName(t) ==
    /\ thr[t].kind = "select_model" /\ thr[t].pc = "set_name"
    /\ ACTIVE_MODEL_NAME' = thr[t].arg
    /\ thr' = [thr EXCEPT ![t] = [@ EXCEPT !.pc = "return",
                                           !.writes = @ + 1]]
    /\ history' = Append(history, thr[t].arg)
    /\ UNCHANGED <<fs, registry_json, REGISTRY, ACTIVE_MODEL_PIPE, startup,
                   nreq>>

\* select_model, lines 211-214: the response reads ACTIVE_MODEL_NAME.
SelectReturn(t) ==
    /\ thr[t].kind = "select_model" /\ thr[t].pc = "return"
    /\ thr' = [thr EXCEPT ![t] = [@ EXCEPT !.pc = "done", !.status = 200,
                                   !.active_model = ACTIVE_MODEL_NAME]]
    /\ UNCHANGED <<fs, registry_json, REGISTRY, ACTIVE_MODEL_NAME,
                   ACTIVE_MODEL_PIPE, startup, nreq, history>>

\* predict that tests ACTIVE_MODEL_NAME, not ACTIVE_MODEL_PIPE, for None.
predict_tests_name(t, features) ==
    /\ CanAccept(t)
    /\ LET r == [IdleThread EXCEPT !.kind = "predict", !.arg = features,
                                   !.pipe_at_call = ACTIVE_MODEL_PIPE] IN
       thr' = [thr EXCEPT ![t] =
                 IF ACTIVE_MODEL_NAME = None
                 THEN Raise(r, 500, "Modelo no cargado")
                 ELSE [r EXCEPT !.pc = "call_pipe"]]
    /\ nreq' = nreq + 1
    /\ history' = history
    /\ UNCHANGED <<fs, registry_json, REGISTRY, ACTIVE_MODEL_NAME,
                   ACTIVE_MODEL_PIPE, startup>>

\* POST /predict, lines 241-245: the None test on ACTIVE_MODEL_PIPE.
predict(t, features) ==
    /\ CanAccept(t)
    /\ LET r == [IdleThread EXCEPT !.kind = "predict", !.arg = features,
                                   !.pipe_at_call = ACTIVE_MODEL_PIPE] IN
       thr' = [thr EXCEPT ![t] =
                 IF ACTIVE_MODEL_PIPE = None
                 THEN Raise(r, 500, "Modelo no cargado")
                 ELSE [r EXCEPT !.pc = "call_pipe"]]
    /\ nreq' = nreq + 1
    /\ history' = history
    /\ UNCHANGED <<fs, registry_json, REGISTRY, ACTIVE_MODEL_NAME,
                   ACTIVE_MODEL_PIPE, startup>>

\* predict that reloads the active model's artifact before every call.
PredictCallPipe_reloads(t) ==
    /\ thr[t].kind = "predict" /\ thr[t].pc = "call_pipe"
    /\ LET r == load_model(ACTIVE_MODEL_NAME)
           p == IF r.ok THEN r.value ELSE ACTIVE_MODEL_PIPE IN
       /\ ACTIVE_MODEL_PIPE' = p
       /\ thr' = [thr EXCEPT ![t] =
                    [@ EXCEPT !.pc = "return",
                              !.load_calls = @ + 1,
                              !.writes = @ + 1,
                              !.pipe_used = p,
                              !.prediction = pipeline_predict(p, thr[t].arg)]]
    /\ UNCHANGED <<fs, registry_json, REGISTRY, ACTIVE_MODEL_NAME, startup,
                   nreq, history>>

\* predict, line 251: pred = ACTIVE_MODEL_PIPE.predict(df)[0].
PredictCallPipe(t) ==
    /\ thr[t].kind = "predict" /\ thr[t].pc = "call_pipe"
    /\ thr' = [thr EXCEPT ![t] =
                 [@ EXCEPT !.pc = "return",
                           !.pipe_used = ACTIVE_MODEL_PIPE,
                           !.prediction =
                               pipeline_predict(ACTIVE_MODEL_PIPE,
                                                thr[t].arg)]]
    /\ UNCHANGED <<fs, registry_json, REGISTRY, ACTIVE_MODEL_NAME,
                   ACTIVE_MODEL_PIPE, startup, nreq, history>>

\* predict, lines 253-256: the response reads ACTIVE_MODEL_NAME.
PredictReturn(t) ==
    /\ thr[t].kind = "predict" /\ thr[t].pc = "return"
    /\ thr' = [thr EXCEPT ![t] = [@ EXCEPT !.pc = "done", !.status = 200,
                                   !.active_model = ACTIVE_MODEL_NAME]]
    /\ UNCHANGED <<fs, registry_json, REGISTRY, ACTIVE_MODEL_NAME,
                   ACTIVE_MODEL_PIPE, startup, nreq, history>>

\* ------------------------------------------------------------------ Next
Next ==
    \/ StartupLoadRegistry
    \/ StartupGetDefault
    \/ StartupLoadModel
    \/ StartupSetName
    \/ \E t \in Threads : home(t)
    \/ \E t \in Threads : list_models(t)
    \/ \E t \in Threads, n \in Names : select_model(t, n)
    \/ \E t \in Threads : SelectLoadModel(t)
    \/ \E t \in Threads : SelectSetName(t)
    \/ \E t \in Threads : SelectReturn(t)
    \/ \E t \in Threads, f \in Features : predict(t, f)
    \/ \E t \in Threads : PredictCallPipe(t)
    \/ \E t \in Threads : PredictReturn(t)

Spec == Init /\ [][Next]_vars

\* Requests served one at a time: a request is accepted only while no
\* other handler is running.
Quiet == \A t \in Threads : Free(t)

NextSeq ==
    \/ StartupLoadRegistry
    \/ StartupGetDefault
    \/ StartupLoadModel
    \/ StartupSetName
    \/ \E t \in Threads : Quiet /\ home(t)
    \/ \E t \in Threads : Quiet /\ list_models(t)
    \/ \E t \in Threads, n \in Names : Quiet /\ select_model(t, n)
    \/ \E t \in Threads : SelectLoadModel(t)
    \/ \E t \in Threads : SelectSetName(t)
    \/ \E t \in Threads : SelectReturn(t)
    \/ \E t \in Threads, f \in Features : Quiet /\ predict(t, f)
    \/ \E t \in Threads : PredictCallPipe(t)
    \/ \E t \in Threads : PredictReturn(t)

SpecSeq == Init /\ [][NextSeq]_vars

\* set_active_model(model_name) run alone on the active pair `active`:
\* line 124 then line 125; a failed load raises and leaves the pair.
set_active_model(active, model_name) ==
    LET r == load_model(model_name) IN
    IF r.ok THEN [name |-> model_name, pipe |-> r.value] ELSE active

\* ================================================================ claims
Done(t, kind) == thr[t].kind = kind /\ thr[t].pc = "done"

available == dict_get(REGISTRY, "available_models", <<>>)

\* The pipeline that load_model gives for a model name.
PipeOf(name) == joblib_load(model_path(name))

\* C1: while requests are served after a successful startup, the active
\* name and the active pipeline always belong to the same model (the
\* pipeline is the one loaded for the name): no state a reader can observe
\* pairs a name of one model with a pipeline of another.
C1_PairSwitchesAtomically ==
    startup.pc = "ok" =>
        IF ACTIVE_MODEL_NAME = None
        THEN ACTIVE_MODEL_PIPE = None
        ELSE ACTIVE_MODEL_PIPE = PipeOf(ACTIVE_MODEL_NAME)

\* C2: a select_model request for a name that is not in the stored
\* registry's available_models ends with the 404 "not available" outcome,
\* has made no call to load_model and no write to the active name or
\* pipeline.
C2_UnknownNameRejected ==
    \A t \in Threads :
        (/\ Done(t, "select_model")
         /\ ~REGISTRY.isNone
         /\ ~InSeq(thr[t].arg, available))
        => /\ thr[t].status = 404
           /\ thr[t].detail = "Modelo no disponible"
           /\ thr[t].load_calls = 0
           /\ thr[t].writes = 0

C2_Witness ==
    \E t \in Threads :
        /\ Done(t, "select_model")
        /\ ~REGISTRY.isNone
        /\ ~InSeq(thr[t].arg, available)
        /\ model_path(thr[t].arg) \in fs
        /\ ACTIVE_MODEL_NAME # None
        /\ thr[t].status = 404

\* C3: a select_model request for a name that is in available_models but
\* has no artifact ends with load_model's own 404 "not found" failure and
\* has written neither the active name nor the active pipeline.
C3_MissingArtifactNoPartialSwitch ==
    \A t \in Threads :
        (/\ Done(t, "select_model")
         /\ InSeq(thr[t].arg, available)
         /\ model_path(thr[t].arg) \notin fs)
        => /\ thr[t].status = load_model(thr[t].arg).status
           /\ thr[t].detail = load_model(thr[t].arg).detail
           /\ thr[t].status = 404
           /\ thr[t].load_calls = 1
           /\ thr[t].writes = 0

C3_Witness ==
    \E t \in Threads :
        /\ Done(t, "select_model")
        /\ InSeq(thr[t].arg, available)
        /\ model_path(thr[t].arg) \notin fs
        /\ thr[t].detail = "Modelo no encontrado"
        /\ ACTIVE_MODEL_NAME # None
        /\ ACTIVE_MODEL_NAME # thr[t].arg

\* C4: whenever a model is active, its name is a member of the registry's
\* available_models (the registry never changes, so membership now is
\* membership at the moment of activation).
C4_ActiveNameIsAvailable ==
    ACTIVE_MODEL_NAME # None => InSeq(ACTIVE_MODEL_NAME, available)

\* C5: after a successful startup, every successful predict response
\* names, as model_used, the model whose pipeline produced the label it
\* carries.
C5_ModelUsedProducedLabel ==
    \A t \in Threads :
        (startup.pc = "ok" /\ Done(t, "predict") /\ thr[t].status = 200)
        => /\ thr[t].pipe_used = PipeOf(thr[t].active_model)
           /\ thr[t].prediction =
                  pipeline_predict(PipeOf(thr[t].active_model), thr[t].arg)

\* C6: a predict request called while no pipeline is active ends at once
\* with the 500 "not loaded" error and never invokes a pipeline; a predict
\* request called while a pipeline is active never ends with that error.
C6_PredictNotReady ==
    \A t \in Threads :
        thr[t].kind = "predict"
        => IF thr[t].pipe_at_call = None
           THEN /\ thr[t].pc = "done"
                /\ thr[t].status = 500
                /\ thr[t].detail = "Modelo no cargado"
                /\ thr[t].pipe_used = None
                /\ thr[t].prediction = None
           ELSE /\ thr[t].status # 500
                /\ thr[t].pc = "done" => /\ thr[t].status = 200
                                         /\ thr[t].pipe_used # None

C6_Witness ==
    /\ \E t \in Threads : /\ Done(t, "predict")
                          /\ thr[t].pipe_at_call = None
                          /\ thr[t].status = 500
    /\ \E t \in Threads : /\ Done(t, "predict")
                          /\ thr[t].pipe_at_call # None
                          /\ thr[t].status = 200

\* C7: after a failed startup no model is ever active: the active name and
\* the active pipeline stay absent whatever requests follow.
C7_FailedStartupStaysUninitialized ==
    startup.pc = "failed" =>
        ACTIVE_MODEL_NAME = None /\ ACTIVE_MODEL_PIPE = None

\* C8: no step makes a present active name or pipeline absent again, and
\* a step that ends a select_model request in failure leaves both as they
\* were.
C8_ReadyStaysReady ==
    [][/\ ACTIVE_MODEL_NAME # None => ACTIVE_MODEL_NAME' # None
       /\ ACTIVE_MODEL_PIPE # None => ACTIVE_MODEL_PIPE' # None
       /\ (\E t \in Threads : /\ thr'[t] # thr[t]
                              /\ thr'[t].kind = "select_model"
                              /\ thr'[t].pc = "done"
                              /\ thr'[t].status # 200)
          => UNCHANGED <<ACTIVE_MODEL_NAME, ACTIVE_MODEL_PIPE>>]_vars

C8_Witness ==
    /\ startup.pc = "ok"
    /\ ACTIVE_MODEL_NAME # None
    /\ \E t \in Threads : /\ Done(t, "select_model")
                          /\ thr[t].load_calls = 1
                          /\ thr[t].status = 404
    /\ \E t \in Threads : /\ Done(t, "select_model")
                          /\ thr[t].status = 200

\* C9: when registry.json exists, names a default_model and that model's
\* artifact exists, startup succeeds and, before any request is served,
\* the active name is default_model and the active pipeline is the one
\* loaded for it.
ValidRegistry ==
    /\ REGISTRY_PATH \in fs
    /\ "default_model" \in registry_json.keys
    /\ model_path(registry_json.default_model) \in fs

C9_StartupActivatesDefault ==
    (ValidRegistry /\ StartupOver /\ nreq = 0)
    => /\ startup.pc = "ok"
       /\ ACTIVE_MODEL_NAME = registry_json.default_model
       /\ ACTIVE_MODEL_PIPE = PipeOf(registry_json.default_model)

C9_Witness ==
    /\ ValidRegistry
    /\ startup.pc = "ok"
    /\ nreq = 0
    /\ ACTIVE_MODEL_PIPE # None

\* C10: after a successful startup, a select_model request for a name that
\* is in available_models and has an artifact ends with 200 and reports
\* the requested name as active_model.
C10_SelectReportsRequestedName ==
    \A t \in Threads :
        (/\ startup.pc = "ok"
         /\ Done(t, "select_model")
         /\ InSeq(thr[t].arg, available)
         /\ model_path(thr[t].arg) \in fs)
        => /\ thr[t].status = 200
           /\ thr[t].active_model = thr[t].arg

\* C11: with requests served one at a time, once set_active_model has
\* completed for A, then B, then A again, the active name and pipeline are
\* those a single set_active_model(A) leaves.
EndsWith(h, a, b, c) ==
    /\ Len(h) >= 3
    /\ h[Len(h) - 2] = a /\ h[Len(h) - 1] = b /\ h[Len(h)] = c

NoActive == [name |-> None, pipe |-> None]

C11_SwitchAwayAndBack ==
    \A a \in Names, b \in Names :
        (Quiet /\ EndsWith(history, a, b, a))
        => [name |-> ACTIVE_MODEL_NAME, pipe |-> ACTIVE_MODEL_PIPE]
               = set_active_model(NoActive, a)

C11_Witness ==
    \E a \in Names, b \in Names :
        /\ a # b
        /\ Quiet
        /\ EndsWith(history, a, b, a)
        /\ startup.pc = "ok"
        /\ ACTIVE_MODEL_NAME = a

\* C12: when registry.json is missing or lacks default_model, load_registry
\* fails, startup ends in a configuration error and, before any request is
\* served, no registry is stored and no model is active.
ConfigErrors ==
    {"RuntimeError: registry.json no existe",
     "RuntimeError: no default_model"}

C12_FailedRegistryLoadStoresNothing ==
    (/\ StartupOver
     /\ nreq = 0
     /\ \/ REGISTRY_PATH \notin fs
        \/ "default_model" \notin registry_json.keys)
    => /\ ~load_registry.ok
       /\ startup.pc = "failed"
       /\ startup.error \in ConfigErrors
       /\ REGISTRY.isNone
       /\ ACTIVE_MODEL_NAME = None
       /\ ACTIVE_MODEL_PIPE = None

\* C13: once startup is over REGISTRY never changes; a step of a GET /,
\* GET /models or predict handler changes neither the active name nor the
\* active pipeline, and such a handler never calls load_model; every change
\* of the active name or pipeline is made by startup or by a select_model
\* request whose name is available and whose artifact loads.
Readers == {"home", "list_models", "predict"}

C13_OnlyStartupAndSelectWrite ==
    [][/\ StartupOver => REGISTRY' = REGISTRY
       /\ \A t \in Threads :
              (thr'[t] # thr[t] /\ thr'[t].kind \in Readers)
              => /\ UNCHANGED <<ACTIVE_MODEL_NAME, ACTIVE_MODEL_PIPE,
                                REGISTRY>>
                 /\ thr'[t].load_calls = 0
                 /\ thr'[t].writes = 0
       /\ <<ACTIVE_MODEL_NAME, ACTIVE_MODEL_PIPE>>'
              # <<ACTIVE_MODEL_NAME, ACTIVE_MODEL_PIPE>>
          => \/ ~StartupOver
             \/ \E t \in Threads :
                    /\ thr[t].kind = "select_model"
                    /\ thr'[t].writes = thr[t].writes + 1
                    /\ InSeq(thr[t].arg, available)
                    /\ load_model(thr[t].arg).ok]_vars

C13_Witness ==
    /\ startup.pc = "ok"
    /\ history # <<>>
    /\ \E t \in Threads : Done(t, "predict") /\ thr[t].status = 200
    /\ \E t \in Threads : Done(t, "list_models") /\ thr[t].status = 200

\* C14: every GET / and GET /models response is a 200 that reports
\* active_model null while no model is active, every select_model response
\* is a 200 or a 404, and no handler ends in an unhandled exception.
C14_HandlersNeverCrash ==
    \A t \in Threads :
        /\ (Done(t, "home") \/ Done(t, "list_models"))
           => /\ thr[t].status = 200
              /\ ACTIVE_MODEL_NAME = None => thr[t].active_model = None
        /\ Done(t, "select_model") => thr[t].status \in {200, 404}
        /\ thr[t].detail # "AttributeError"

====
